---------------------------- MODULE Spec2Model ----------------------------
(***************************************************************************)
(* Model of asv/plugins/regressions.py: Regressions.publish (enumeration,  *)
(* bounded dispatch to a worker pool, FIFO collection, merge and save),    *)
(* Regressions._insert_regression, _analyze_data and _GraphDataFilter.     *)
(*                                                                         *)
(* Python values are encoded as follows.                                   *)
(*   None                 <<>>          an optional value x is <<x>>       *)
(*   a str                a sequence of tokens (entry names, regexes,      *)
(*                        hashes, file names) or a TLA+ string (atoms)     *)
(*   a dict               a function; the empty dict is <<>>               *)
(*   a sample value       [tag |-> "none"], [tag |-> "num", v |-> n] or    *)
(*                        [tag |-> "list", items |-> <<...>>]              *)
(***************************************************************************)
EXTENDS Integers, Sequences, FiniteSets, TLC

VARIABLES
    graphs,          \* publish's argument: the graphs in iteration order
    conf,            \* publish's argument: first-commit rules, branches, hash_length
    shallow,         \* repo: commits the clone does not hold
    n_processes,     \* multiprocessing.cpu_count()
    pc,              \* the coordinator's position in publish
    gi,              \* the for loop's position in graphs
    graph,           \* publish's local variable graph (an index into graphs)
    gen,             \* the generator graph_data: its graph and its position
    time_sets,       \* _GraphDataFilter.time_sets
    tasks,           \* the pool's tasks, in submission order
    results,         \* publish's list of pending (handle, graph) pairs
    regressions,     \* the output list
    seen,            \* key -> position of the stored record in regressions
    pool_terminated, \* pool.terminate() has run
    error,           \* the exception publish propagates, if any
    saved,           \* what _save wrote, if it ran
    inserted,        \* history: (task, graph) of every _insert_regression call
    reordered        \* history: a task finished before one submitted earlier

vars == <<graphs, conf, shallow, n_processes, pc, gi, graph, gen, time_sets, tasks,
          results, regressions, seen, pool_terminated, error, saved, inserted,
          reordered>>

None == <<>>
Some(x) == <<x>>

NoneV == [tag |-> "none"]
Num(n) == [tag |-> "num", v |-> n]
List(s) == [tag |-> "list", items |-> s]

Range(f) == {f[x] : x \in DOMAIN f}

\* dict.get(key): the value, or None
Get(d, k) == IF k \in DOMAIN d THEN Some(d[k]) ELSE None

\* Python truthiness of an optional string
Truthy(o) == o # None /\ o[1] # ""

-----------------------------------------------------------------------------
(* Bounds of the model *)

MaxGraphs == 3
MaxProcs == 2
MaxInserts == 2

-----------------------------------------------------------------------------
(* The commit history collaborator (repo) and hash_to_date *)

\* full hashes: two tokens, of which hash_length are kept
FullHash(c) == <<c, "f">>

Commits == {"c1", "c2", "c3", "c4", "d3", "c5"}

\* first parent of each commit; c1 is the root
Parent == [c \in Commits |->
             CASE c = "c1" -> None
               [] c = "c2" -> Some("c1")
               [] c = "c3" -> Some("c2")
               [] c = "c4" -> Some("c3")
               [] c = "c5" -> Some("c4")
               [] c = "d3" -> Some("c2")]

RECURSIVE Ancestors(_)
\* the commits reachable from c, c first
Ancestors(c) ==
    IF Parent[c] = None THEN <<c>> ELSE <<c>> \o Ancestors(Parent[c][1])

BranchTip(b) == IF b = Some("dev") THEN "d3" ELSE "c5"

\* a commit name: a (possibly truncated) hash or a tag
ResolveName(name) ==
    IF name = <<"v1">> THEN "c2"
    ELSE CHOOSE c \in Commits : SubSeq(FullHash(c), 1, Len(name)) = name

\* repo.get_range_spec(a, b) and repo.get_new_range_spec(start, branch)
get_range_spec(a, b) == [from |-> ResolveName(a), to |-> ResolveName(b)]
get_new_range_spec(start, branch) ==
    [from |-> ResolveName(start), to |-> BranchTip(branch)]

\* repo.get_hash_from_name
get_hash_from_name(name) == FullHash(ResolveName(name))

\* whether the repo fails on this range: an endpoint is not in the clone
RangeFails(spec, missing) == spec.from \in missing \/ spec.to \in missing

\* repo.get_hashes_from_range: the commits of a..b, newest first
get_hashes_from_range(spec) ==
    LET new == SelectSeq(Ancestors(spec.to),
                         LAMBDA c : c \notin Range(Ancestors(spec.from)))
    IN  [i \in 1..Len(new) |-> FullHash(new[i])]

\* hash_to_date: truncated hash -> date; c5 has no known date
hash_to_date ==
    (<<"c1">> :> 10) @@ (<<"c2">> :> 20) @@ (<<"c3">> :> 30) @@
    (<<"c4">> :> 40) @@ (<<"d3">> :> 35)

date_to_hash == [d \in Range(hash_to_date) |->
                   CHOOSE h \in DOMAIN hash_to_date : hash_to_date[h] = d]

-----------------------------------------------------------------------------
(* Exceptions *)

Exc(cls, msg) == [cls |-> cls, msg |-> msg]

\* util.ParallelFailure(str(exc), exc.__class__, traceback.format_exc())
ParallelFailure(exc) ==
    [cls |-> "ParallelFailure", message |-> exc.msg, exc_cls |-> exc.cls,
     traceback_str |-> <<"Traceback", "_analyze_data", exc.cls, exc.msg>>]

-----------------------------------------------------------------------------
(* _GraphDataFilter *)

RECURSIVE ReMatch(_, _)
\* re.match(regex, s): the regex matches a prefix of s.  A regex is a
\* sequence of literal tokens, ".*" and "$".
ReMatch(regex, s) ==
    IF regex = <<>> THEN TRUE
    ELSE IF Head(regex) = ".*"
         THEN \E k \in 0..Len(s) : ReMatch(Tail(regex), SubSeq(s, k + 1, Len(s)))
    ELSE IF Head(regex) = "$" THEN s = <<>> /\ ReMatch(Tail(regex), s)
    ELSE s # <<>> /\ Head(s) = Head(regex) /\ ReMatch(Tail(regex), Tail(s))

\* branch_suffix of _get_allowed_times
BranchSuffix(gr) ==
    IF Truthy(Get(gr.params, "branch"))
    THEN <<"@", gr.params["branch"]>> ELSE <<>>

\* the key of the time-set cache for a rule's start commit
TimeSetKey(cf, gr, start_commit) ==
    IF cf.branches = <<None>> THEN <<start_commit, None>>
    ELSE <<start_commit, Get(gr.params, "branch")>>

\* mutant: the start commit itself is left out
ComputeTimes_NoStart(cf, key) ==
    LET spec == get_new_range_spec(key[1], key[2])
        hashes == get_hashes_from_range(spec)
        short == {SubSeq(hashes[i], 1, cf.hash_length) : i \in 1..Len(hashes)}
    IN  {hash_to_date[h] : h \in short \cap DOMAIN hash_to_date}

\* the dates of start_commit and of the commits from it to the branch tip
ComputeTimes(cf, key) ==
    LET spec == get_new_range_spec(key[1], key[2])
        hashes == <<get_hash_from_name(key[1])>> \o get_hashes_from_range(spec)
        short == {SubSeq(hashes[i], 1, cf.hash_length) : i \in 1..Len(hashes)}
    IN  {hash_to_date[h] : h \in short \cap DOMAIN hash_to_date}

\* mutant: a null start commit leaves every date allowed
NullRuleTimes_All == Range(hash_to_date)

\* "Disable regression detection completely": return set()
NullRuleTimes == {}

\* mutant: the set is stored under the start commit for every branch
CachePut_AnyBranch(cache, key, times) ==
    cache @@ [k \in {<<key[1], b>> : b \in {None, Some("master"), Some("dev")}}
                |-> times]

\* self.time_sets[key] = times
CachePut(cache, key, times) == cache @@ (key :> times)

RECURSIVE AllowedTimesLoop(_, _, _, _, _, _, _)
\* the for loop of _get_allowed_times from rule i on
AllowedTimesLoop(cf, missing, gr, entry_name, i, time_set, cache) ==
    IF i > Len(cf.regressions_first_commits)
    THEN [exc |-> None, time_set |-> time_set, time_sets |-> cache]
    ELSE
      LET rule == cf.regressions_first_commits[i]
      IN  IF ~ReMatch(rule.regex, entry_name \o BranchSuffix(gr))
          THEN AllowedTimesLoop(cf, missing, gr, entry_name, i + 1, time_set, cache)
          ELSE IF rule.start_commit = None
          THEN [exc |-> None, time_set |-> NullRuleTimes, time_sets |-> cache]
          ELSE
            LET key == TimeSetKey(cf, gr, rule.start_commit[1])
                spec == get_new_range_spec(key[1], key[2])
            IN  IF key \notin DOMAIN cache /\ RangeFails(spec, missing)
                THEN [exc |-> Some(Exc("RepoError", <<spec.from, spec.to>>)),
                      time_set |-> time_set, time_sets |-> cache]
                ELSE
                  LET cache2 == IF key \in DOMAIN cache THEN cache
                                ELSE CachePut(cache, key, ComputeTimes(cf, key))
                  IN  AllowedTimesLoop(cf, missing, gr, entry_name, i + 1,
                                       time_set \cap cache2[key], cache2)

RECURSIVE ResolvedKeys(_, _, _, _, _, _)
\* the keys for which the for loop of _get_allowed_times, from rule i on,
\* asks the repo for a range (the body of "if key not in self.time_sets"),
\* in the order of the calls
ResolvedKeys(cf, missing, gr, entry_name, i, cache) ==
    IF i > Len(cf.regressions_first_commits) THEN <<>>
    ELSE
      LET rule == cf.regressions_first_commits[i]
      IN  IF ~ReMatch(rule.regex, entry_name \o BranchSuffix(gr))
          THEN ResolvedKeys(cf, missing, gr, entry_name, i + 1, cache)
          ELSE IF rule.start_commit = None THEN <<>>
          ELSE
            LET key == TimeSetKey(cf, gr, rule.start_commit[1])
            IN  IF key \in DOMAIN cache
                THEN ResolvedKeys(cf, missing, gr, entry_name, i + 1, cache)
                ELSE IF RangeFails(get_new_range_spec(key[1], key[2]), missing)
                THEN <<key>>
                ELSE <<key>> \o
                     ResolvedKeys(cf, missing, gr, entry_name, i + 1,
                                  CachePut(cache, key, ComputeTimes(cf, key)))

\* _GraphDataFilter._get_allowed_times
get_allowed_times(cf, missing, gr, entry_name, cache) ==
    AllowedTimesLoop(cf, missing, gr, entry_name, 1, Range(hash_to_date), cache)

RECURSIVE Product_FirstFastest(_)
\* mutant: the first axis varies fastest
Product_FirstFastest(axes) ==
    IF axes = <<>> THEN << <<>> >>
    ELSE LET rest == Product_FirstFastest(Tail(axes))
             n == Len(Head(axes))
         IN  [i \in 1..(n * Len(rest)) |->
                <<Head(axes)[((i - 1) % n) + 1]>> \o rest[((i - 1) \div n) + 1]]

RECURSIVE Product(_)
\* itertools.product(*axes): the first axis varies slowest
Product(axes) ==
    IF axes = <<>> THEN << <<>> >>
    ELSE LET rest == Product(Tail(axes))
             n == Len(rest)
         IN  [i \in 1..(Len(Head(axes)) * n) |->
                <<Head(axes)[((i - 1) \div n) + 1]>> \o rest[((i - 1) % n) + 1]]

\* param_iter of get_graph_data: pairs (j, param)
ParamIter(benchmark) ==
    IF benchmark.params # <<>>
    THEN LET prod == Product(benchmark.params)
         IN  [i \in 1..Len(prod) |-> <<Some(i - 1), Some(prod[i])>>]
    ELSE << <<None, None>> >>

RECURSIVE JoinComma(_)
\* ', '.join(param)
JoinComma(param) ==
    IF Len(param) <= 1 THEN param
    ELSE <<Head(param), ", ">> \o JoinComma(Tail(param))

\* entry_name of get_graph_data
EntryName(benchmark, param) ==
    IF param = None THEN <<benchmark.name>>
    ELSE <<benchmark.name, "(">> \o JoinComma(param[1]) \o <<")">>

\* item[1][j] raises unless item[1] is a list holding index j
SubscriptFails(value, j) ==
    value.tag # "list" \/ j + 1 > Len(value.items)

\* one iteration of the generator get_graph_data: the k-th item of param_iter
GraphDataStep(cf, missing, gr, benchmark, k, cache) ==
    LET it == ParamIter(benchmark)[k]
        j == it[1]
        param == it[2]
        entry_name == EntryName(benchmark, param)
        allowed == get_allowed_times(cf, missing, gr, entry_name, cache)
        series == SelectSeq(gr.data, LAMBDA item : item[1] \in allowed.time_set)
        times == [i \in 1..Len(series) |-> series[i][1]]
    IN  IF allowed.exc # None
        THEN [exc |-> allowed.exc, data |-> None, time_sets |-> allowed.time_sets]
        ELSE IF param = None
        THEN [exc |-> None,
              data |-> <<j, entry_name, times,
                         [i \in 1..Len(series) |-> series[i][2]]>>,
              time_sets |-> allowed.time_sets]
        ELSE IF \E i \in 1..Len(series) : SubscriptFails(series[i][2], j[1])
        THEN [exc |-> Some(Exc("TypeError", <<"subscript", entry_name>>)),
              data |-> None, time_sets |-> allowed.time_sets]
        ELSE [exc |-> None,
              data |-> <<j, entry_name, times,
                         [i \in 1..Len(series) |-> series[i][2].items[j[1] + 1]]>>,
              time_sets |-> allowed.time_sets]

-----------------------------------------------------------------------------
(* The worker's task *)

SetMin(S) == CHOOSE x \in S : \A y \in S : x <= y
SetMax(S) == CHOOSE x \in S : \A y \in S : x >= y

\* the sequence of the elements of a set of integers, ascending
RECURSIVE SortedSeq(_)
SortedSeq(S) ==
    IF S = {} THEN <<>> ELSE <<SetMin(S)>> \o SortedSeq(S \ {SetMin(S)})

\* step_detect.detect_regressions, a pure function of the values: the most
\* recent value, the positions after which the value steps up, and the best
\* value; nothing when the series has no value or its most recent value is
\* its best.  It raises on a sample that is not a number.
detect_regressions(values) ==
    LET present == {i \in 1..Len(values) : values[i].tag = "num"}
        nxt(i) == SetMin({k \in present : k > i})
        v == values[SetMax(present)].v
        best_v == SetMin({values[i].v : i \in present})
        ups == {i \in present : /\ \E k \in present : k > i
                                /\ values[nxt(i)].v > values[i].v}
    IN  IF \E i \in 1..Len(values) : values[i].tag = "list"
        THEN [exc |-> Some(Exc("TypeError", <<"unsupported operand", values>>)),
              value |-> None]
        ELSE IF present = {} \/ v <= best_v
        THEN [exc |-> None, value |-> <<None, None, None>>]
        ELSE [exc |-> None,
              value |-> <<Some(v),
                          Some([n \in 1..Cardinality(ups) |-> SortedSeq(ups)[n] - 1]),
                          Some(best_v)>>]

\* mutant: the end boundary is the next position, with or without a value
NextR_Adjacent(values, jump_r) == jump_r + 1

\* next_r of _analyze_data for the 0-based position jump_r
NextR(values, jump_r) ==
    LET later == {r \in (jump_r + 1)..(Len(values) - 1) : values[r + 1] # NoneV}
    IN  IF later # {} THEN SetMin(later) ELSE jump_r + 1

\* the body of the try block of _analyze_data, given what detect_regressions
\* returned
AnalyzeBody(graph_data, detected) ==
    LET j == graph_data[1]
        entry_name == graph_data[2]
        times == graph_data[3]
        values == graph_data[4]
        v == detected[1]
        jump_pos == detected[2][1]
        best_v == detected[3]
    IN  IF v = None
        THEN [exc |-> None, value |-> <<j, entry_name, None>>]
        ELSE IF \E n \in 1..Len(jump_pos) :
                  \/ jump_pos[n] + 1 > Len(times)
                  \/ NextR(values, jump_pos[n]) + 1 > Len(times)
        THEN [exc |-> Some(Exc("IndexError", <<"list index out of range">>)),
              value |-> None]
        ELSE [exc |-> None,
              value |-> <<j, entry_name,
                          Some(<<[n \in 1..Len(jump_pos) |->
                                    <<Some(times[jump_pos[n] + 1]),
                                      times[NextR(values, jump_pos[n]) + 1]>>],
                                 v[1], best_v[1]>>)>>]

\* _analyze_data, given what the call of detect_regressions did: any
\* exception of the body becomes a ParallelFailure
AnalyzeWith(graph_data, d) ==
    LET r == IF d.exc # None THEN d ELSE AnalyzeBody(graph_data, d.value)
    IN  IF r.exc # None
        THEN [exc |-> Some(ParallelFailure(r.exc[1])), value |-> None]
        ELSE r

\* _analyze_data
analyze_data(graph_data) ==
    AnalyzeWith(graph_data, detect_regressions(graph_data[4]))

-----------------------------------------------------------------------------
(* Regressions._insert_regression *)

\* all_params of publish: the truthy values of every key over all graphs
AllParams(gs) ==
    LET keys == UNION {DOMAIN gs[i].params : i \in 1..Len(gs)}
    IN  [k \in keys |->
           {gs[i].params[k] : i \in {n \in 1..Len(gs) :
                                       /\ k \in DOMAIN gs[n].params
                                       /\ gs[n].params[k] # ""}}]

\* mutant: a key is kept as soon as one value was observed for it
GraphParams_Observed(all_params, gr) ==
    LET keep == {k \in DOMAIN gr.params : Cardinality(all_params[k]) > 0}
    IN  [k \in keep |-> gr.params[k]]

\* "Select unique graph params"
GraphParams(all_params, gr) ==
    LET keep == {k \in DOMAIN gr.params : Cardinality(all_params[k]) > 1}
    IN  [k \in keep |-> gr.params[k]]

\* mutant: every jump loses its start, whatever the length of its range
RefineJump_Any(jump) ==
    LET spec == get_range_spec(date_to_hash[jump[1][1]], date_to_hash[jump[2]])
    IN  IF Len(get_hashes_from_range(spec)) >= 1 THEN <<None, jump[2]>> ELSE jump

\* "Check which ranges are a single commit", for one jump
RefineJump(jump) ==
    LET spec == get_range_spec(date_to_hash[jump[1][1]], date_to_hash[jump[2]])
    IN  IF Len(get_hashes_from_range(spec)) = 1 THEN <<None, jump[2]>> ELSE jump

JumpFails(jump, missing) ==
    RangeFails(get_range_spec(date_to_hash[jump[1][1]], date_to_hash[jump[2]]),
               missing)

\* mutant: an equally bad candidate replaces the stored record too
Worse_OrEqual(prev_result, result) ==
    LET abs(x) == IF x < 0 THEN -x ELSE x
    IN  abs(prev_result[2] * result[3]) <= abs(result[2] * prev_result[3])

\* mutant: the comparison looks at the current values only
Worse_CurrentOnly(prev_result, result) ==
    LET abs(x) == IF x < 0 THEN -x ELSE x
    IN  abs(prev_result[2]) < abs(result[2])

\* mutant: the comparison is turned round and picks the better regression
Worse_Better(prev_result, result) ==
    LET abs(x) == IF x < 0 THEN -x ELSE x
    IN  abs(prev_result[2] * result[3]) > abs(result[2] * prev_result[3])

\* the comparison of "Pick the worse regression"
Worse(prev_result, result) ==
    LET abs(x) == IF x < 0 THEN -x ELSE x
    IN  abs(prev_result[2] * result[3]) < abs(result[2] * prev_result[3])

\* mutant: the key is built from the machine instead of the branch
KeyOf_Machine(entry_name, graph_params) ==
    <<entry_name, Get(graph_params, "machine")>>

\* the dedup key of a record
KeyOf(entry_name, graph_params) == <<entry_name, Get(graph_params, "branch")>>

\* mutant: a worse candidate is appended and seen is pointed at it, instead
\* of overwriting the stored record in place
insert_regression_Reappend(regs, sn, missing, all_params, result_item, gr) ==
    LET j == result_item[1]
        entry_name == result_item[2]
        result == result_item[3]
    IN  IF result = None
        THEN [exc |-> None, regressions |-> regs, seen |-> sn]
        ELSE
          LET jumps == result[1][1]
          IN  IF \E k \in 1..Len(jumps) : JumpFails(jumps[k], missing)
              THEN [exc |-> Some(Exc("RepoError", <<"range">>)),
                    regressions |-> regs, seen |-> sn]
              ELSE
                LET refined == <<[k \in 1..Len(jumps) |-> RefineJump(jumps[k])],
                                 result[1][2], result[1][3]>>
                    graph_params == GraphParams(all_params, gr)
                    graph_path == gr.path \o <<".json">>
                    regression == <<entry_name, graph_path, graph_params, j, refined>>
                    key == KeyOf(entry_name, graph_params)
                IN  IF key \notin DOMAIN sn
                    THEN [exc |-> None,
                          regressions |-> Append(regs, regression),
                          seen |-> sn @@ (key :> Len(regs) + 1)]
                    ELSE IF Worse(regs[sn[key]][5], refined)
                    THEN [exc |-> None,
                          regressions |-> Append(regs, regression),
                          seen |-> [sn EXCEPT ![key] = Len(regs) + 1]]
                    ELSE [exc |-> None, regressions |-> regs, seen |-> sn]

\* _insert_regression: the new regressions and seen, or the exception raised
insert_regression(regs, sn, missing, all_params, result_item, gr) ==
    LET j == result_item[1]
        entry_name == result_item[2]
        result == result_item[3]
    IN  IF result = None
        THEN [exc |-> None, regressions |-> regs, seen |-> sn]
        ELSE
          LET jumps == result[1][1]
          IN  IF \E k \in 1..Len(jumps) : JumpFails(jumps[k], missing)
              THEN [exc |-> Some(Exc("RepoError", <<"range">>)),
                    regressions |-> regs, seen |-> sn]
              ELSE
                LET refined == <<[k \in 1..Len(jumps) |-> RefineJump(jumps[k])],
                                 result[1][2], result[1][3]>>
                    graph_params == GraphParams(all_params, gr)
                    graph_path == gr.path \o <<".json">>
                    regression == <<entry_name, graph_path, graph_params, j, refined>>
                    key == KeyOf(entry_name, graph_params)
                IN  IF key \notin DOMAIN sn
                    THEN [exc |-> None,
                          regressions |-> Append(regs, regression),
                          seen |-> sn @@ (key :> Len(regs) + 1)]
                    ELSE IF Worse(regs[sn[key]][5], refined)
                    THEN [exc |-> None,
                          regressions |-> [regs EXCEPT ![sn[key]] = regression],
                          seen |-> sn]
                    ELSE [exc |-> None, regressions |-> regs, seen |-> sn]

-----------------------------------------------------------------------------
(* The inputs of publish *)

\* the benchmark registry: time_foo has no parameters, time_bar one axis,
\* time_baz and time_grid two axes
benchmarks ==
    [time_foo |-> [name |-> "time_foo", params |-> <<>>],
     time_bar |-> [name |-> "time_bar", params |-> << <<"a", "b">> >>],
     time_baz |-> [name |-> "time_baz",
                   params |-> << <<"a", "b">>, <<"c", "d">> >>],
     time_grid |-> [name |-> "time_grid",
                    params |-> << <<"a", "b", "c">>, <<"x", "y">> >>]]

\* os.path.basename(file_name)
Basename(file_name) == file_name[Len(file_name)]

MkGraph(file, params, data) ==
    [file |-> file, path |-> file, params |-> params, data |-> data]

\* the graphs an input is drawn from, in the order the dict iterates them
GraphCatalogue ==
    << MkGraph(<<"graphs", "branch-master", "machine-x", "time_foo">>,
               [branch |-> "master", machine |-> "x"],
               << <<10, Num(2)>>, <<20, Num(2)>>, <<30, Num(4)>>, <<40, Num(4)>> >>),
       MkGraph(<<"graphs", "branch-master", "machine-y", "time_foo">>,
               [branch |-> "master", machine |-> "y", cpu |-> ""],
               << <<10, Num(1)>>, <<20, NoneV>>, <<40, Num(6)>> >>),
       MkGraph(<<"graphs", "summary", "time_foo">>,
               [summary |-> "1"],
               << <<10, Num(1)>>, <<20, Num(8)>> >>),
       MkGraph(<<"graphs", "machine-z", "time_foo">>,
               [machine |-> "z", cpu |-> "i7"],
               << <<10, Num(1)>>, <<20, Num(2)>> >>),
       MkGraph(<<"graphs", "branch-dev", "machine-x", "time_foo">>,
               [branch |-> "dev", machine |-> "x"],
               << <<10, Num(3)>>, <<20, Num(3)>>, <<35, Num(9)>> >>),
       MkGraph(<<"graphs", "branch-master", "machine-x", "time_gone">>,
               [branch |-> "master", machine |-> "x"],
               << <<10, Num(1)>>, <<20, Num(7)>> >>),
       MkGraph(<<"graphs", "branch-master", "machine-x", "time_bar">>,
               [branch |-> "master", machine |-> "x"],
               << <<10, List(<<Num(1), Num(5)>>)>>, <<30, List(<<Num(3), Num(5)>>)>> >>),
       MkGraph(<<"graphs", "branch-master", "machine-w", "time_foo">>,
               [branch |-> "master", machine |-> "w"],
               << <<10, Num(1)>>, <<20, List(<<Num(1)>>)>> >>),
       MkGraph(<<"graphs", "branch-master", "machine-y", "time_bar">>,
               [branch |-> "master", machine |-> "y"],
               << <<10, Num(1)>>, <<20, Num(2)>> >>) >>

Rule(regex, start_commit) == [regex |-> regex, start_commit |-> start_commit]

MkConf(rules, branches) ==
    [regressions_first_commits |-> rules, branches |-> branches, hash_length |-> 1]

\* the configurations an input is drawn from
ConfCatalogue ==
    { MkConf(<<>>, <<None>>),
      MkConf(<<Rule(<<"time_foo", "@", "dev">>, None)>>, <<"master", "dev">>),
      MkConf(<<Rule(<<".*">>, Some(<<"v1">>))>>, <<"master", "dev">>),
      MkConf(<<Rule(<<".*">>, Some(<<"c1">>)), Rule(<<"time_foo", "$">>, None)>>,
             <<"master", "dev">>),
      MkConf(<<Rule(<<"time_foo", "$">>, None), Rule(<<".*">>, Some(<<"c1">>))>>,
             <<"master", "dev">>),
      MkConf(<<Rule(<<"time_bar">>, Some(<<"c3">>))>>, <<None>>) }

\* the increasing index sequences of length at most n over 1..m
RECURSIVE Picks(_, _, _)
Picks(lo, m, n) ==
    {<<>>} \cup
    (IF n = 0 THEN {}
     ELSE UNION {{<<i>> \o p : p \in Picks(i + 1, m, n - 1)} : i \in lo..m})

GraphInputs ==
    {[k \in 1..Len(p) |-> GraphCatalogue[p[k]]] :
       p \in Picks(1, Len(GraphCatalogue), MaxGraphs)}

-----------------------------------------------------------------------------
(* publish *)

Init ==
    /\ graphs \in GraphInputs
    /\ conf \in ConfCatalogue
    /\ shallow \in {{}, {"c1"}}
    /\ n_processes \in 1..MaxProcs
    /\ pc = "for"
    /\ gi = 1
    /\ graph = 0
    /\ gen = None
    /\ time_sets = <<>>
    /\ tasks = <<>>
    /\ results = <<>>
    /\ regressions = <<>>
    /\ seen = <<>>
    /\ pool_terminated = FALSE
    /\ error = None
    /\ saved = None
    /\ inserted = <<>>
    /\ reordered = FALSE

all_params == AllParams(graphs)

\* benchmarks.get(os.path.basename(file_name))
BenchmarkOf(g) == Get(benchmarks, Basename(g.file))

\* the for loop is over: on to the final collection loop
EndFor ==
    /\ pc = "for" /\ gi > Len(graphs)
    /\ pc' = "drain"
    /\ UNCHANGED <<graphs, conf, shallow, n_processes, gi, graph, gen, time_sets,
                   tasks, results, regressions, seen, pool_terminated, error,
                   saved, inserted, reordered>>

\* file_name, graph = item; if 'summary' in graph.params: continue
SkipSummary ==
    /\ pc = "for" /\ gi <= Len(graphs)
    /\ "summary" \in DOMAIN graphs[gi].params
    /\ graph' = gi
    /\ gi' = gi + 1
    /\ UNCHANGED <<graphs, conf, shallow, n_processes, pc, gen, time_sets, tasks,
                   results, regressions, seen, pool_terminated, error, saved,
                   inserted, reordered>>

\* file_name, graph = item; ...; if not benchmark: continue
SkipNoBenchmark ==
    /\ pc = "for" /\ gi <= Len(graphs)
    /\ "summary" \notin DOMAIN graphs[gi].params
    /\ BenchmarkOf(graphs[gi]) = None
    /\ graph' = gi
    /\ gi' = gi + 1
    /\ UNCHANGED <<graphs, conf, shallow, n_processes, pc, gen, time_sets, tasks,
                   results, regressions, seen, pool_terminated, error, saved,
                   inserted, reordered>>

\* mutant: the summary check is missing
StartGraph_NoSummaryCheck ==
    /\ pc = "for" /\ gi <= Len(graphs)
    /\ BenchmarkOf(graphs[gi]) # None
    /\ graph' = gi
    /\ gen' = [g |-> gi, k |-> 1]
    /\ pc' = "data"
    /\ UNCHANGED <<graphs, conf, shallow, n_processes, gi, time_sets, tasks,
                   results, regressions, seen, pool_terminated, error, saved,
                   inserted, reordered>>

\* file_name, graph = item; ...;
\* graph_data = data_filter.get_graph_data(graph, benchmark)
StartGraph ==
    /\ pc = "for" /\ gi <= Len(graphs)
    /\ "summary" \notin DOMAIN graphs[gi].params
    /\ BenchmarkOf(graphs[gi]) # None
    /\ graph' = gi
    /\ gen' = [g |-> gi, k |-> 1]
    /\ pc' = "data"
    /\ UNCHANGED <<graphs, conf, shallow, n_processes, gi, time_sets, tasks,
                   results, regressions, seen, pool_terminated, error, saved,
                   inserted, reordered>>

\* the benchmark the generator was created with
GenBenchmark == BenchmarkOf(graphs[gen.g])[1]

\* the generator's next item
NextData ==
    GraphDataStep(conf, shallow, graphs[gen.g], GenBenchmark, gen.k, time_sets)

\* results.append((pool.apply_async(_analyze_data, (data,), {}), graph));
\* origin records the graph the generator enumerated the series from
Submit ==
    /\ pc = "data" /\ gen.k <= Len(ParamIter(GenBenchmark))
    /\ NextData.exc = None
    /\ tasks' = Append(tasks, [data |-> NextData.data, origin |-> gen.g,
                               done |-> FALSE, outcome |-> None])
    /\ results' = Append(results, <<Len(tasks) + 1, graph>>)
    /\ time_sets' = NextData.time_sets
    /\ gen' = [gen EXCEPT !.k = gen.k + 1]
    /\ UNCHANGED <<graphs, conf, shallow, n_processes, pc, gi, graph, regressions,
                   seen, pool_terminated, error, saved, inserted, reordered>>

\* get_graph_data raises: the exception leaves the try block
EnumerationFails ==
    /\ pc = "data" /\ gen.k <= Len(ParamIter(GenBenchmark))
    /\ NextData.exc # None
    /\ error' = NextData.exc
    /\ time_sets' = NextData.time_sets
    /\ pc' = "finally"
    /\ UNCHANGED <<graphs, conf, shallow, n_processes, gi, graph, gen, tasks,
                   results, regressions, seen, pool_terminated, saved, inserted, reordered>>

\* the generator is exhausted
EndData ==
    /\ pc = "data" /\ gen.k > Len(ParamIter(GenBenchmark))
    /\ pc' = "throttle"
    /\ gen' = None
    /\ UNCHANGED <<graphs, conf, shallow, n_processes, gi, graph, time_sets, tasks,
                   results, regressions, seen, pool_terminated, error, saved,
                   inserted, reordered>>

\* mutant: the first pending task that has finished is collected
Pop_Completed(rs) ==
    LET fin == {i \in 1..Len(rs) : tasks[rs[i][1]].done}
        i == IF fin = {} THEN 1 ELSE CHOOSE x \in fin : \A y \in fin : x <= y
    IN  [item |-> rs[i],
         rest |-> SubSeq(rs, 1, i - 1) \o SubSeq(rs, i + 1, Len(rs))]

\* mutant: results.pop() takes the newest pending task
Pop_Last(rs) == [item |-> rs[Len(rs)], rest |-> SubSeq(rs, 1, Len(rs) - 1)]

\* results.pop(0)
Pop(rs) == [item |-> Head(rs), rest |-> Tail(rs)]

\* r, graph = results.pop(0); cls._insert_regression(..., r.get(), graph)
\* r.get() waits for the task and re-raises what the task raised
Collect ==
    LET popped == Pop(results)
        r == popped.item[1]
        merged == insert_regression(regressions, seen, shallow, all_params,
                                    tasks[r].outcome.value, graphs[popped.item[2]])
    IN  /\ tasks[r].done
        /\ results' = popped.rest
        /\ graph' = popped.item[2]
        /\ IF tasks[r].outcome.exc # None
           THEN /\ error' = tasks[r].outcome.exc
                /\ pc' = "finally"
                /\ UNCHANGED <<regressions, seen, inserted>>
           ELSE /\ inserted' = Append(inserted, popped.item)
                /\ regressions' = merged.regressions
                /\ seen' = merged.seen
                /\ error' = merged.exc
                /\ pc' = IF merged.exc # None THEN "finally" ELSE pc
        /\ UNCHANGED <<graphs, conf, shallow, n_processes, gi, gen, time_sets,
                       tasks, pool_terminated, saved, reordered>>

\* mutant: the loop lets one more task stay pending
MustCollect_OffByOne == Len(results) > n_processes + 1

\* mutant: the loop starts collecting at twice the pool's size
MustCollect_Double == Len(results) > 2 * n_processes

\* len(results) > n_processes
MustCollect == Len(results) > n_processes

\* while len(results) > n_processes: collect the oldest pending task
Throttle ==
    /\ pc = "throttle" /\ MustCollect
    /\ Collect

\* the while loop ends, and with it this iteration of the for loop
ThrottleEnd ==
    /\ pc = "throttle" /\ ~MustCollect
    /\ pc' = "for"
    /\ gi' = gi + 1
    /\ UNCHANGED <<graphs, conf, shallow, n_processes, graph, gen, time_sets, tasks,
                   results, regressions, seen, pool_terminated, error, saved,
                   inserted, reordered>>

\* while results: collect the oldest pending task
Drain ==
    /\ pc = "drain" /\ results # <<>>
    /\ Collect

\* mutant: the final loop is left as soon as the pool's ceiling is respected
DrainEnd_AtCeiling ==
    /\ pc = "drain" /\ Len(results) <= n_processes
    /\ pc' = "finally"
    /\ UNCHANGED <<graphs, conf, shallow, n_processes, gi, graph, gen, time_sets,
                   tasks, results, regressions, seen, pool_terminated, error,
                   saved, inserted, reordered>>

DrainEnd ==
    /\ pc = "drain" /\ results = <<>>
    /\ pc' = "finally"
    /\ UNCHANGED <<graphs, conf, shallow, n_processes, gi, graph, gen, time_sets,
                   tasks, results, regressions, seen, pool_terminated, error,
                   saved, inserted, reordered>>

\* mutant: the exception is swallowed and the output is saved all the same
Finally_Swallow ==
    /\ pc = "finally"
    /\ pool_terminated' = TRUE
    /\ pc' = "save"
    /\ UNCHANGED <<graphs, conf, shallow, n_processes, gi, graph, gen, time_sets,
                   tasks, results, regressions, seen, error, saved, inserted, reordered>>

\* mutant: pool.terminate() follows the loops instead of standing in a
\* finally clause, so an exception skips it
Finally_SuccessOnly ==
    /\ pc = "finally"
    /\ pool_terminated' = (error = None)
    /\ pc' = IF error = None THEN "save" ELSE "failed"
    /\ UNCHANGED <<graphs, conf, shallow, n_processes, gi, graph, gen, time_sets,
                   tasks, results, regressions, seen, error, saved, inserted, reordered>>

\* finally: pool.terminate(); then the pending exception, if any, propagates
Finally ==
    /\ pc = "finally"
    /\ pool_terminated' = TRUE
    /\ pc' = IF error = None THEN "save" ELSE "failed"
    /\ UNCHANGED <<graphs, conf, shallow, n_processes, gi, graph, gen, time_sets,
                   tasks, results, regressions, seen, error, saved, inserted, reordered>>

\* cls._save(conf, {'regressions': regressions})
Save ==
    /\ pc = "save"
    /\ saved' = Some(regressions)
    /\ pc' = "done"
    /\ UNCHANGED <<graphs, conf, shallow, n_processes, gi, graph, gen, time_sets,
                   tasks, results, regressions, seen, pool_terminated, error,
                   inserted, reordered>>

\* the tasks the pool's n_processes workers can be running: the workers take
\* tasks in submission order, so these are the oldest n_processes unfinished
Running ==
    LET undone == {t \in 1..Len(tasks) : ~tasks[t].done}
    IN  {t \in undone : Cardinality({u \in undone : u < t}) < n_processes}

\* a worker finishes a task: _analyze_data(data) returns or raises
WorkerFinish ==
    /\ ~pool_terminated
    /\ \E t \in Running :
         /\ tasks' = [tasks EXCEPT ![t].done = TRUE,
                                   ![t].outcome = analyze_data(tasks[t].data)]
         /\ reordered' = (reordered \/ \E u \in 1..(t - 1) : ~tasks[u].done)
    /\ UNCHANGED <<graphs, conf, shallow, n_processes, pc, gi, graph, gen,
                   time_sets, results, regressions, seen, pool_terminated, error,
                   saved, inserted>>

Next ==
    \/ EndFor \/ SkipSummary \/ SkipNoBenchmark \/ StartGraph
    \/ Submit \/ EnumerationFails \/ EndData
    \/ Throttle \/ ThrottleEnd \/ Drain \/ DrainEnd
    \/ Finally \/ Save
    \/ WorkerFinish

Spec == Init /\ [][Next]_vars

\* the steps of the coordinator, which runs publish
Coordinator ==
    \/ EndFor \/ SkipSummary \/ SkipNoBenchmark \/ StartGraph
    \/ Submit \/ EnumerationFails \/ EndData
    \/ Throttle \/ ThrottleEnd \/ Drain \/ DrainEnd
    \/ Finally \/ Save

\* publish called without first-commit rules on MaxGraphs graphs, of which
\* the first is the graph of time_foo on master, machine x, and one belongs
\* to the parameterized benchmark time_bar, with a pool of one process or of
\* MaxProcs processes
InitLive ==
    /\ graphs \in {gs \in GraphInputs :
                     /\ Len(gs) = MaxGraphs
                     /\ gs[1] = GraphCatalogue[1]
                     /\ \E i \in 1..Len(gs) : gs[i] = GraphCatalogue[7]}
    /\ conf = MkConf(<<>>, <<None>>)
    /\ shallow = {}
    /\ n_processes \in {1, MaxProcs}
    /\ pc = "for"
    /\ gi = 1
    /\ graph = 0
    /\ gen = None
    /\ time_sets = <<>>
    /\ tasks = <<>>
    /\ results = <<>>
    /\ regressions = <<>>
    /\ seen = <<>>
    /\ pool_terminated = FALSE
    /\ error = None
    /\ saved = None
    /\ inserted = <<>>
    /\ reordered = FALSE

\* publish with a coordinator that keeps running and a pool whose workers
\* finish the tasks they run
SpecLive ==
    InitLive /\ [][Next]_vars /\ WF_vars(Coordinator) /\ WF_vars(WorkerFinish)

-----------------------------------------------------------------------------
(* _insert_regression called on arbitrary results *)

\* the values a result's currentValue and bestValue are drawn from
CurValues == {-2, 0, 4, 6}
BestValues == {-1, 0, 1, 2}

\* the result items _insert_regression is called with: the series time_foo
\* without a result, or with a result without jumps
Candidates ==
    {<<None, <<"time_foo">>, None>>} \cup
    {<<None, <<"time_foo">>, Some(<<<<>>, cur, best>>)>> :
       cur \in CurValues, best \in BestValues}

\* the candidate (4, 2) of time_foo
FirstCandidate == <<None, <<"time_foo">>, Some(<<<<>>, 4, 2>>)>>

\* three graphs of which two share a key
InsertGraphs == <<GraphCatalogue[1], GraphCatalogue[2], GraphCatalogue[5]>>

\* regressions = [] and seen = {}, or the state after a first call of
\* _insert_regression, with the candidate (4, 2) for the first graph
InitInsert ==
    /\ graphs = InsertGraphs
    /\ conf = MkConf(<<>>, <<None>>)
    /\ shallow = {}
    /\ n_processes = 1
    /\ pc = "insert"
    /\ gi = 1
    /\ gen = None
    /\ time_sets = <<>>
    /\ results = <<>>
    /\ \/ /\ tasks = <<>>
          /\ inserted = <<>>
          /\ graph = 0
          /\ regressions = <<>>
          /\ seen = <<>>
       \/ LET first == insert_regression(<<>>, <<>>, {}, AllParams(InsertGraphs),
                                         FirstCandidate, InsertGraphs[1])
          IN  /\ tasks = <<[data |-> <<None, <<"time_foo">>, <<>>, <<>>>>,
                            origin |-> 1, done |-> TRUE,
                            outcome |-> [exc |-> None, value |-> FirstCandidate]]>>
              /\ inserted = << <<1, 1>> >>
              /\ graph = 1
              /\ regressions = first.regressions
              /\ seen = first.seen
    /\ pool_terminated = FALSE
    /\ error = None
    /\ saved = None
    /\ reordered = FALSE

\* cls._insert_regression(regressions, seen, date_to_hash, repo, all_params,
\* result_item, graph) for any result item and any graph; the item is kept
\* as the outcome of a finished task, and gi counts the calls of the run
InsertCall ==
    /\ pc = "insert" /\ gi <= MaxInserts
    /\ gi' = gi + 1
    /\ \E g \in 1..Len(graphs), item \in Candidates :
         LET merged == insert_regression(regressions, seen, shallow, all_params,
                                         item, graphs[g])
         IN  /\ tasks' = Append(tasks, [data |-> <<item[1], item[2], <<>>, <<>>>>,
                                        origin |-> g, done |-> TRUE,
                                        outcome |-> [exc |-> None, value |-> item]])
             /\ inserted' = Append(inserted, <<Len(tasks) + 1, g>>)
             /\ graph' = g
             /\ regressions' = merged.regressions
             /\ seen' = merged.seen
             /\ error' = merged.exc
    /\ UNCHANGED <<graphs, conf, shallow, n_processes, pc, gen, time_sets,
                   results, pool_terminated, saved, reordered>>

NextInsert == InsertCall

SpecInsert == InitInsert /\ [][NextInsert]_vars

-----------------------------------------------------------------------------
(* get_graph_data consumed by the inner for loop of publish, for one graph *)

\* a sample of a parameterized benchmark: n values, v + 1, v + 2, ...
ListSample(v, n) == List([i \in 1..n |-> Num(v + i)])

\* the graphs the generator is run on: without parameters, with one axis,
\* with two axes, with samples too short for the axes, with scalar samples
DataGraphs ==
    { GraphCatalogue[1], GraphCatalogue[7], GraphCatalogue[9],
      MkGraph(<<"graphs", "branch-master", "machine-x", "time_baz">>,
              [branch |-> "master", machine |-> "x"],
              << <<10, ListSample(10, 4)>>, <<20, ListSample(20, 4)>>,
                 <<30, ListSample(30, 4)>> >>),
      MkGraph(<<"graphs", "branch-dev", "machine-x", "time_baz">>,
              [branch |-> "dev", machine |-> "x"],
              << <<10, ListSample(10, 4)>>, <<35, ListSample(30, 3)>> >>),
      MkGraph(<<"graphs", "branch-master", "machine-x", "time_grid">>,
              [branch |-> "master", machine |-> "x"],
              << <<10, ListSample(10, 6)>>, <<30, ListSample(30, 6)>>,
                 <<40, ListSample(40, 6)>> >>) }

\* data_filter.get_graph_data(graph, benchmark) has just been called
InitData ==
    /\ graphs \in {<<g>> : g \in DataGraphs}
    /\ conf \in ConfCatalogue
    /\ shallow \in {{}, {"c1"}}
    /\ n_processes = 1
    /\ pc = "data"
    /\ gi = 1
    /\ graph = 1
    /\ gen = [g |-> 1, k |-> 1]
    /\ time_sets = <<>>
    /\ tasks = <<>>
    /\ results = <<>>
    /\ regressions = <<>>
    /\ seen = <<>>
    /\ pool_terminated = FALSE
    /\ error = None
    /\ saved = None
    /\ inserted = <<>>
    /\ reordered = FALSE

\* for data in graph_data: results.append(...)
NextEnum == Submit \/ EnumerationFails \/ EndData

SpecData == InitData /\ [][NextEnum]_vars

-----------------------------------------------------------------------------
(* _get_allowed_times called repeatedly on one _GraphDataFilter *)

MaxRules == 2
MaxCalls == 2

\* the rules a configuration is made of
RulePool ==
    << Rule(<<".*">>, Some(<<"c1">>)),
       Rule(<<"time_foo">>, Some(<<"c3">>)),
       Rule(<<".*", "@", "dev">>, Some(<<"v1">>)),
       Rule(<<"time_bar">>, Some(<<"c5">>)),
       Rule(<<"time_foo", "$">>, None) >>

\* regressions_first_commits: up to MaxRules rules with different regexes,
\* in the order the dict iterates them
RuleLists ==
    UNION {{rs \in [1..n -> Range(RulePool)] :
              \A a, b \in 1..n : a # b => rs[a].regex # rs[b].regex} :
           n \in 0..MaxRules}

\* a graph per branch, one without branch, one of a parameterized benchmark
TimesGraphs ==
    <<GraphCatalogue[1], GraphCatalogue[5], GraphCatalogue[4], GraphCatalogue[7]>>

\* the entry names get_graph_data builds for graph g
EntriesOf(g) ==
    LET b == BenchmarkOf(g)[1]
    IN  {EntryName(b, ParamIter(b)[k][2]) : k \in 1..Len(ParamIter(b))}

\* a new _GraphDataFilter: self.time_sets = {}
InitTimes ==
    /\ graphs = TimesGraphs
    /\ conf \in {MkConf(rs, br) : rs \in RuleLists,
                                  br \in {<<None>>, <<"master", "dev">>}}
    /\ shallow \in {{}, {"c1"}}
    /\ n_processes = 1
    /\ pc = "times"
    /\ gi = 1
    /\ graph = 0
    /\ gen = None
    /\ time_sets = <<>>
    /\ tasks = <<>>
    /\ results = <<>>
    /\ regressions = <<>>
    /\ seen = <<>>
    /\ pool_terminated = FALSE
    /\ error = None
    /\ saved = None
    /\ inserted = <<>>
    /\ reordered = FALSE

\* time_set = self._get_allowed_times(graph, benchmark, entry_name); the
\* call is kept in tasks with the cache it found, what it returned or raised,
\* and the keys it asked the repo for.  An exception ends the run.
TimesCall ==
    /\ pc = "times" /\ Len(tasks) < MaxCalls
    /\ \E g \in 1..Len(graphs) :
         \E entry_name \in EntriesOf(graphs[g]) :
           LET r == get_allowed_times(conf, shallow, graphs[g], entry_name,
                                      time_sets)
           IN  /\ tasks' = Append(tasks,
                       [data |-> <<None, entry_name, <<>>, <<>>>>,
                        origin |-> g, done |-> TRUE,
                        outcome |-> [exc |-> r.exc, value |-> r.time_set],
                        cache |-> time_sets,
                        resolved |-> ResolvedKeys(conf, shallow, graphs[g],
                                                  entry_name, 1, time_sets)])
               /\ time_sets' = r.time_sets
               /\ error' = r.exc
               /\ pc' = IF r.exc # None THEN "failed" ELSE pc
               /\ graph' = g
    /\ UNCHANGED <<graphs, conf, shallow, n_processes, gi, gen, results,
                   regressions, seen, pool_terminated, saved, inserted,
                   reordered>>

NextTimes == TimesCall

SpecTimes == InitTimes /\ [][NextTimes]_vars

-----------------------------------------------------------------------------
(* _analyze_data called on arbitrary series and change-point reports *)

\* the longest series
MaxSeries == 5

\* the series: times 1..n and any values, present or missing
SeriesInputs ==
    UNION {{<<None, <<"time_foo">>, [i \in 1..n |-> i], vs>> :
              vs \in [1..n -> {NoneV, Num(10), Num(20)}]} : n \in 1..MaxSeries}

\* what detect_regressions may return for n values: nothing, or an overall
\* change with up to two jump positions, each any index of the series
Detections(n) ==
    {<<None, None, None>>} \cup
    {<<Some(20), Some(p), Some(10)>> : p \in Picks(0, n - 1, 2)}

\* one task, submitted with its series; detected is what detect_regressions
\* will return in it
InitAnalyze ==
    /\ graphs = <<>>
    /\ conf = MkConf(<<>>, <<None>>)
    /\ shallow = {}
    /\ n_processes = 1
    /\ pc = "analyze"
    /\ gi = 1
    /\ graph = 0
    /\ gen = None
    /\ time_sets = <<>>
    /\ \E data \in SeriesInputs :
         \E d \in Detections(Len(data[4])) :
           tasks = <<[data |-> data, origin |-> 0, done |-> FALSE,
                      outcome |-> None, detected |-> d]>>
    /\ results = <<>>
    /\ regressions = <<>>
    /\ seen = <<>>
    /\ pool_terminated = FALSE
    /\ error = None
    /\ saved = None
    /\ inserted = <<>>
    /\ reordered = FALSE

\* the worker runs _analyze_data(graph_data)
AnalyzeCall ==
    /\ pc = "analyze" /\ ~tasks[1].done
    /\ tasks' = [tasks EXCEPT
                   ![1].done = TRUE,
                   ![1].outcome = AnalyzeWith(tasks[1].data,
                                              [exc |-> None,
                                               value |-> tasks[1].detected])]
    /\ UNCHANGED <<graphs, conf, shallow, n_processes, pc, gi, graph, gen,
                   time_sets, results, regressions, seen, pool_terminated, error,
                   saved, inserted, reordered>>

NextAnalyze == AnalyzeCall

SpecAnalyze == InitAnalyze /\ [][NextAnalyze]_vars

-----------------------------------------------------------------------------
(* Definitions the properties are stated with *)

\* the (entryName, branch) pair of an output record
RecordKey(r) == <<r[1], Get(r[3], "branch")>>

\* the index of the graph an output record was built from
GraphOfRecord(r) ==
    CHOOSE i \in 1..Len(graphs) : graphs[i].path \o <<".json">> = r[2]

\* the i-th call of _insert_regression: its result_item, whether it carries
\* a result, and its dedup key
InsertItem(i) == tasks[inserted[i][1]].outcome.value
HasResult(i) == InsertItem(i)[3] # None
InsertKey(i) ==
    KeyOf(InsertItem(i)[2], GraphParams(all_params, graphs[inserted[i][2]]))

OneRecordPerKey(regs) ==
    \A a, b \in 1..Len(regs) : a # b => RecordKey(regs[a]) # RecordKey(regs[b])

RECURSIVE RefEnumerate(_, _, _, _)
\* the series of all graphs in enumeration order, each with its graph
RefEnumerate(g, k, cache, acc) ==
    IF g > Len(graphs) THEN [ok |-> TRUE, items |-> acc]
    ELSE IF "summary" \in DOMAIN graphs[g].params \/ BenchmarkOf(graphs[g]) = None
    THEN RefEnumerate(g + 1, 1, cache, acc)
    ELSE IF k > Len(ParamIter(BenchmarkOf(graphs[g])[1]))
    THEN RefEnumerate(g + 1, 1, cache, acc)
    ELSE LET step == GraphDataStep(conf, shallow, graphs[g],
                                   BenchmarkOf(graphs[g])[1], k, cache)
         IN  IF step.exc # None THEN [ok |-> FALSE, items |-> acc]
             ELSE RefEnumerate(g, k + 1, step.time_sets,
                               Append(acc, <<step.data, g>>))

RECURSIVE RefMerge(_, _, _, _)
\* the series analysed and merged one after the other, without a pool
RefMerge(items, i, regs, sn) ==
    IF i > Len(items) THEN [ok |-> TRUE, regressions |-> regs]
    ELSE LET out == analyze_data(items[i][1])
             m == insert_regression(regs, sn, shallow, all_params, out.value,
                                    graphs[items[i][2]])
         IN  IF out.exc # None \/ m.exc # None
             THEN [ok |-> FALSE, regressions |-> regs]
             ELSE RefMerge(items, i + 1, m.regressions, m.seen)

\* what a run without concurrency produces from the inputs alone
SequentialRun ==
    LET e == RefEnumerate(1, 1, <<>>, <<>>)
    IN  IF e.ok THEN RefMerge(e.items, 1, <<>>, <<>>)
        ELSE [ok |-> FALSE, regressions |-> <<>>]

-----------------------------------------------------------------------------
(* Properties *)

\* C1: in every state of publish, and in what it saves, the regressions list
\* holds at most one record per (entryName, graphParams branch) pair.
C1_OneRecordPerKey ==
    /\ OneRecordPerKey(regressions)
    /\ saved # None => OneRecordPerKey(saved[1])

\* two results were inserted for one key and another for a second key
C1_Witness ==
    /\ pc = "done"
    /\ Len(saved[1]) >= 2
    /\ \E a, b \in 1..Len(inserted) :
         a < b /\ HasResult(a) /\ HasResult(b) /\ InsertKey(a) = InsertKey(b)

\* C2: whatever the order in which the workers finish, a run that saves saves
\* the list that the inputs determine (the series merged one after the other
\* in enumeration order), and a run fails only if the inputs make it fail.
C2_Deterministic ==
    /\ pc = "done" => SequentialRun.ok /\ saved = Some(SequentialRun.regressions)
    /\ pc = "failed" => ~SequentialRun.ok /\ saved = None

\* a run saved two records although its workers finished out of order
C2_Witness ==
    /\ pc = "done"
    /\ reordered
    /\ Len(saved[1]) >= 2

\* C3: the calls of _insert_regression take the tasks in submission order,
\* each with the graph its series was enumerated from, the pending handles
\* are the newest tasks in submission order, and a failure raised by a
\* collection is that of the oldest task not yet inserted.
C3_FifoAttribution ==
    /\ \A i \in 1..Len(inserted) : inserted[i] = <<i, tasks[i].origin>>
    /\ LET c == Len(tasks) - Len(results)
       IN  /\ c >= Len(inserted)
           /\ c <= Len(inserted) + 1
           /\ \A k \in 1..Len(results) :
                results[k] = <<c + k, tasks[c + k].origin>>
           /\ c = Len(inserted) + 1 =>
                error = tasks[c].outcome.exc /\ error # None

\* three tasks of two graphs were inserted although the workers finished
\* them out of order
C3_Witness ==
    /\ reordered
    /\ Len(inserted) >= 3
    /\ \E i \in 1..Len(inserted) : tasks[i].origin # tasks[1].origin

\* C4 as stated: no task is submitted in a state where more than n_processes
\* tasks are outstanding.
C4_Original ==
    [][Len(tasks') > Len(tasks) => Len(results) <= n_processes]_vars

\* C4 amended: the coordinator starts a graph with at most n_processes tasks
\* outstanding, and submits a task with at most n_processes plus the number
\* of series of the same graph submitted before it outstanding.
C4_PerGraphBackpressure ==
    /\ pc = "for" => Len(results) <= n_processes
    /\ pc = "data" => Len(results) <= n_processes + (gen.k - 1)

\* a task was submitted although more than n_processes were outstanding
C4_Witness ==
    /\ pc = "data"
    /\ gen.k > 1
    /\ Len(results) >= n_processes + 2

\* the tasks that raised
Raised == {t \in 1..Len(tasks) : tasks[t].done /\ tasks[t].outcome.exc # None}

\* the exception _analyze_data caught in task t
OriginalExc(t) ==
    LET d == detect_regressions(tasks[t].data[4])
    IN  IF d.exc # None THEN d.exc[1]
        ELSE AnalyzeBody(tasks[t].data, d.value).exc[1]

\* publish fails with an exception of the coordinator's own steps
CoordinatorFault == error # None /\ error[1].cls # "ParallelFailure"

C6_PoolTerminated ==
    /\ pc \in {"save", "done", "failed"} => pool_terminated
    /\ saved # None => pool_terminated

\* publish failed in a merge step, after the pool was terminated
C6_Witness ==
    /\ pc = "failed"
    /\ error = Some(Exc("RepoError", <<"range">>))
    /\ Len(inserted) >= 2
    /\ pool_terminated

\* a rule with a null start commit matches the entry of graph g
NullRuleMatches(g, entry_name) ==
    \E i \in 1..Len(conf.regressions_first_commits) :
      /\ conf.regressions_first_commits[i].start_commit = None
      /\ ReMatch(conf.regressions_first_commits[i].regex,
                 entry_name \o BranchSuffix(graphs[g]))

\* a rule with a start commit matches the entry of graph g and stands before
\* a matching rule with a null start commit
OtherRuleMatchesFirst(g, entry_name) ==
    \E i, k \in 1..Len(conf.regressions_first_commits) :
      /\ i < k
      /\ conf.regressions_first_commits[i].start_commit # None
      /\ conf.regressions_first_commits[k].start_commit = None
      /\ ReMatch(conf.regressions_first_commits[i].regex,
                 entry_name \o BranchSuffix(graphs[g]))
      /\ ReMatch(conf.regressions_first_commits[k].regex,
                 entry_name \o BranchSuffix(graphs[g]))

\* the unfiltered series of graph g holds a regression
RawRegression(g) ==
    LET d == detect_regressions([i \in 1..Len(graphs[g].data) |->
                                   graphs[g].data[i][2]])
    IN  d.exc = None /\ d.value[1] # None

NoSuppressedRecord(regs) ==
    \A a \in 1..Len(regs) : ~NullRuleMatches(GraphOfRecord(regs[a]), regs[a][1])

\* C7: no record, in memory or saved, belongs to an entry that a rule with a
\* null start commit matches.
C7_NullRuleSuppresses ==
    /\ NoSuppressedRecord(regressions)
    /\ saved # None => NoSuppressedRecord(saved[1])

\* a run ended normally in which a null rule, visited after another matching
\* rule, matched an entry whose series holds a regression
C7_Witness ==
    /\ pc = "done"
    /\ \E t \in 1..Len(tasks) :
         /\ NullRuleMatches(tasks[t].origin, tasks[t].data[2])
         /\ OtherRuleMatchesFirst(tasks[t].origin, tasks[t].data[2])
         /\ RawRegression(tasks[t].origin)

\* the graphs publish skips
Skipped(g) == "summary" \in DOMAIN g.params \/ BenchmarkOf(g) = None

\* C8: no task and no record comes from a graph whose params hold 'summary'
\* or whose basename names no benchmark.
C8_SkippedGraphs ==
    /\ \A t \in 1..Len(tasks) : ~Skipped(graphs[tasks[t].origin])
    /\ \A k \in 1..Len(results) : ~Skipped(graphs[results[k][2]])
    /\ \A a \in 1..Len(regressions) : ~Skipped(graphs[GraphOfRecord(regressions[a])])
    /\ saved # None =>
         \A a \in 1..Len(saved[1]) : ~Skipped(graphs[GraphOfRecord(saved[1][a])])

\* a run ended normally whose input held a summary graph and a graph without
\* benchmark, both with a regression in their series, and a third graph
C8_Witness ==
    /\ pc = "done"
    /\ saved[1] # <<>>
    /\ \E g \in 1..Len(graphs) :
         "summary" \in DOMAIN graphs[g].params /\ RawRegression(g)
    /\ \E g \in 1..Len(graphs) :
         /\ "summary" \notin DOMAIN graphs[g].params
         /\ BenchmarkOf(graphs[g]) = None
         /\ RawRegression(g)

\* the values of a key over the graphs that have it
ObservedValues(k) ==
    {graphs[i].params[k] : i \in {n \in 1..Len(graphs) : k \in DOMAIN graphs[n].params}}

NoConstantParam(regs) ==
    \A a \in 1..Len(regs) :
      \A k \in DOMAIN regs[a][3] : Cardinality(ObservedValues(k)) > 1

\* C9: no record, in memory or saved, has a graphParams key whose value is
\* the same in every input graph that has the key.
C9_NoConstantParam ==
    /\ NoConstantParam(regressions)
    /\ saved # None => NoConstantParam(saved[1])

\* record a of regs took the place of a record built from another graph
ReplacedRecord(regs, a) ==
    \E i, k \in 1..Len(inserted) :
      /\ i < k /\ HasResult(i) /\ HasResult(k)
      /\ InsertKey(i) = RecordKey(regs[a]) /\ InsertKey(k) = RecordKey(regs[a])
      /\ inserted[i][2] # inserted[k][2]
      /\ inserted[k][2] = GraphOfRecord(regs[a])

\* a saved record that replaced another one kept a key and lost a key, in an
\* input that holds a summary graph
C9_Witness ==
    /\ pc = "done"
    /\ \E g \in 1..Len(graphs) : "summary" \in DOMAIN graphs[g].params
    /\ \E a \in 1..Len(saved[1]) :
         /\ ReplacedRecord(saved[1], a)
         /\ DOMAIN saved[1][a][3] # {}
         /\ DOMAIN saved[1][a][3] # DOMAIN graphs[GraphOfRecord(saved[1][a])].params

Abs(x) == IF x < 0 THEN -x ELSE x

\* C10: a call of _insert_regression that carries a result for a key already
\* in seen replaces the stored record by the candidate iff
\* |prevCur * newBest| < |newCur * prevBest|, and otherwise changes nothing;
\* the values are any of CurValues and BestValues, zero and negative ones
\* included.
C10_ReplaceIffWorse ==
    [][(Len(inserted') > Len(inserted) /\ error' = None) =>
         LET call == inserted'[Len(inserted')]
             item == tasks'[call[1]].outcome.value
             key == KeyOf(item[2], GraphParams(all_params, graphs[call[2]]))
         IN  (item[3] # None /\ key \in DOMAIN seen) =>
               LET pos == seen[key]
                   prev == regressions[pos][5]
                   new == item[3][1]
               IN  /\ seen' = seen
                   /\ Len(regressions') = Len(regressions)
                   /\ \A a \in 1..Len(regressions) :
                        a # pos => regressions'[a] = regressions[a]
                   /\ IF Abs(prev[2] * new[3]) < Abs(new[2] * prev[3])
                      THEN /\ regressions'[pos][1] = item[2]
                           /\ regressions'[pos][2] = graphs[call[2]].path \o <<".json">>
                           /\ regressions'[pos][4] = item[1]
                           /\ regressions'[pos][5][2] = new[2]
                           /\ regressions'[pos][5][3] = new[3]
                      ELSE regressions'[pos] = regressions[pos]]_vars

\* the candidate (6, 1) has replaced the stored record (4, 2)
C10_Witness ==
    \E i, k \in 1..Len(inserted) :
      /\ i < k /\ HasResult(i) /\ HasResult(k)
      /\ InsertKey(i) = InsertKey(k)
      /\ InsertItem(i)[3][1][2] = 4 /\ InsertItem(i)[3][1][3] = 2
      /\ InsertItem(k)[3][1][2] = 6 /\ InsertItem(k)[3][1][3] = 1
      /\ regressions[seen[InsertKey(k)]][5][2] = 6
      /\ regressions[seen[InsertKey(k)]][5][3] = 1
      /\ regressions[seen[InsertKey(k)]][2] = graphs[inserted[k][2]].path \o <<".json">>

\* the task whose series an output record was built from
TaskOfRecord(r) ==
    CHOOSE t \in 1..Len(tasks) :
      tasks[t].origin = GraphOfRecord(r) /\ tasks[t].data[2] = r[1]

\* the jumps the task of record r returned, before _insert_regression
RawJumps(r) == tasks[TaskOfRecord(r)].outcome.value[3][1][1]

\* the number of commits in the range between the two commits of a jump
RangeLen(jump) ==
    Len(get_hashes_from_range(
          get_range_spec(date_to_hash[jump[1][1]], date_to_hash[jump[2]])))

JumpsRefined(regs) ==
    \A a \in 1..Len(regs) :
      LET raw == RawJumps(regs[a])
          out == regs[a][5][1]
      IN  /\ Len(out) = Len(raw)
          /\ \A k \in 1..Len(raw) :
               /\ out[k][2] = raw[k][2]
               /\ RangeLen(raw[k]) = 1 => out[k][1] = None
               /\ RangeLen(raw[k]) >= 2 => out[k][1] = raw[k][1]

\* C11: every record, in memory or saved, holds the jumps its task returned,
\* with timeAfter unchanged, timeBefore null where the commit range of the
\* jump holds exactly one commit, and timeBefore the sample time where the
\* range holds two or more commits.
C11_SingleCommitJump ==
    /\ JumpsRefined(regressions)
    /\ saved # None => JumpsRefined(saved[1])

\* a saved output with a jump over one commit, rewritten, and a jump over
\* three commits, kept
C11_Witness ==
    /\ pc = "done"
    /\ \E a, b \in 1..Len(saved[1]) :
         /\ \E k \in 1..Len(RawJumps(saved[1][a])) :
              /\ RangeLen(RawJumps(saved[1][a])[k]) = 1
              /\ saved[1][a][5][1][k][1] = None
         /\ \E k \in 1..Len(RawJumps(saved[1][b])) :
              /\ RangeLen(RawJumps(saved[1][b])[k]) = 3
              /\ saved[1][b][5][1][k] = <<Some(10), 40>>

\* the end boundary the claim gives the jump at position r: the smallest
\* later position with a value, or r + 1
Boundary(values, r) ==
    LET later == {b \in 0..(Len(values) - 1) : b > r /\ values[b + 1].tag = "num"}
    IN  IF later = {} THEN r + 1 ELSE SetMin(later)

\* the task returned, for each reported position r, (times[r], times[b])
YieldsPairs(t, positions) ==
    LET times == t.data[3]
        values == t.data[4]
    IN  /\ t.outcome.exc = None
        /\ t.outcome.value[3] # None
        /\ Len(t.outcome.value[3][1][1]) = Len(positions)
        /\ \A n \in 1..Len(positions) :
             /\ Boundary(values, positions[n]) + 1 <= Len(times)
             /\ t.outcome.value[3][1][1][n] =
                  <<Some(times[positions[n] + 1]),
                    times[Boundary(values, positions[n]) + 1]>>

\* C12 as stated: a finished task whose change-point report holds an overall
\* change has yielded, for every reported jump position r, any index of the
\* series, the last one included, the pair (times[r], times[b]), b being the
\* smallest later index with a value, or r + 1.
C12_Original ==
    \A n \in 1..Len(tasks) :
      (tasks[n].done /\ tasks[n].detected[1] # None) =>
        YieldsPairs(tasks[n], tasks[n].detected[2][1])

\* C12: a finished task whose change-point report holds an overall change
\* has yielded the pair (times[r], times[b]) for every reported position r
\* if every reported position is before the last index of the series;
\* otherwise it has raised a ParallelFailure that carries an IndexError.
C12_NextPresentBoundary ==
    \A n \in 1..Len(tasks) :
      (tasks[n].done /\ tasks[n].detected[1] # None) =>
        IF \A k \in 1..Len(tasks[n].detected[2][1]) :
             tasks[n].detected[2][1][k] < Len(tasks[n].data[4]) - 1
        THEN YieldsPairs(tasks[n], tasks[n].detected[2][1])
        ELSE /\ tasks[n].outcome.exc # None
             /\ tasks[n].outcome.exc[1].cls = "ParallelFailure"
             /\ tasks[n].outcome.exc[1].exc_cls = "IndexError"

\* the task of the series 10, missing, missing, 20, 20 with jumps reported
\* at 0 and 3 has yielded (1, 4) and (4, 5)
C12_Witness ==
    /\ Len(tasks) = 1 /\ tasks[1].done
    /\ tasks[1].data[4] = <<Num(10), NoneV, NoneV, Num(20), Num(20)>>
    /\ tasks[1].detected = <<Some(20), Some(<<0, 3>>), Some(10)>>
    /\ tasks[1].outcome.exc = None
    /\ tasks[1].outcome.value[3][1][1] = << <<Some(1), 4>>, <<Some(4), 5>> >>

\* the number of combinations of the axes from axis i on
RECURSIVE Combos(_, _)
Combos(axes, i) ==
    IF i > Len(axes) THEN 1 ELSE Len(axes[i]) * Combos(axes, i + 1)

\* the combination at 0-based position j when the first axis varies slowest
ParamAt(axes, j) ==
    [i \in 1..Len(axes) |->
       axes[i][((j \div Combos(axes, i + 1)) % Len(axes[i])) + 1]]

\* the samples of graph g at the times of a yielded tuple
SamplesAt(g, times) ==
    [i \in 1..Len(times) |->
       (CHOOSE item \in Range(g.data) : item[1] = times[i])[2]]

\* the times of graph g that the rules of conf allow for an entry
EligibleTimes(g, entry_name) ==
    LET allowed == get_allowed_times(conf, shallow, g, entry_name, <<>>).time_set
        series == SelectSeq(g.data, LAMBDA item : item[1] \in allowed)
    IN  [i \in 1..Len(series) |-> series[i][1]]

\* C13: the t-th tuple the generator yields for a parameterized benchmark
\* has paramIndex t - 1, the entry name of the combination at that position
\* with the first axis varying slowest, the eligible times, and the values
\* at index t - 1 of the eligible samples; an exhausted generator has yielded
\* every combination; for a benchmark without parameters it yields one tuple,
\* with paramIndex absent, the benchmark's name and the eligible samples.
C13_ProductOrder ==
    LET g == graphs[1]
        b == BenchmarkOf(g)[1]
    IN  /\ \A t \in 1..Len(tasks) :
             LET d == tasks[t].data
             IN  IF b.params = <<>>
                 THEN /\ t = 1
                      /\ d[1] = None
                      /\ d[2] = <<b.name>>
                      /\ d[3] = EligibleTimes(g, d[2])
                      /\ d[4] = SamplesAt(g, d[3])
                 ELSE /\ d[1] = Some(t - 1)
                      /\ d[2] = <<b.name, "(">> \o
                                JoinComma(ParamAt(b.params, t - 1)) \o <<")">>
                      /\ d[3] = EligibleTimes(g, d[2])
                      /\ d[4] = [i \in 1..Len(d[3]) |->
                                   SamplesAt(g, d[3])[i].items[t]]
        /\ pc = "throttle" =>
             Len(tasks) = IF b.params = <<>> THEN 1 ELSE Combos(b.params, 1)

\* the generator is exhausted after the four tuples of axes (a, b) x (c, d),
\* in the order (a, c), (a, d), (b, c), (b, d); the last holds the fourth
\* component of each sample
C13_Witness ==
    /\ pc = "throttle"
    /\ BenchmarkOf(graphs[1])[1].params = << <<"a", "b">>, <<"c", "d">> >>
    /\ [t \in 1..Len(tasks) |-> tasks[t].data[2]] =
         << <<"time_baz", "(", "a", ", ", "c", ")">>,
            <<"time_baz", "(", "a", ", ", "d", ")">>,
            <<"time_baz", "(", "b", ", ", "c", ")">>,
            <<"time_baz", "(", "b", ", ", "d", ")">> >>
    /\ [t \in 1..Len(tasks) |-> tasks[t].data[1]] =
         <<Some(0), Some(1), Some(2), Some(3)>>
    /\ tasks[4].data[3] = <<10, 20, 30>>
    /\ tasks[4].data[4] = <<Num(14), Num(24), Num(34)>>

\* the calls of _insert_regression that carried a result for key k
KeyCalls(k) == {i \in 1..Len(inserted) : HasResult(i) /\ InsertKey(i) = k}

\* the orders in which the calls of S can arrive
Orders(S) ==
    {o \in [1..Cardinality(S) -> S] :
       \A a, b \in 1..Cardinality(S) : a # b => o[a] # o[b]}

RECURSIVE Replay(_, _, _, _)
\* regressions after the calls of order, from the n-th on, were made on
\* regs and sn
Replay(order, n, regs, sn) ==
    IF n > Len(order) THEN regs
    ELSE LET m == insert_regression(regs, sn, shallow, all_params,
                                    InsertItem(order[n]),
                                    graphs[inserted[order[n]][2]])
         IN  Replay(order, n + 1, m.regressions, m.seen)

\* every arrival order of the candidates of key k stores the record that is
\* stored now
OrderIndependent(k) ==
    \A o \in Orders(KeyCalls(k)) :
      Replay(o, 1, <<>>, <<>>) = <<regressions[seen[k]]>>

\* no two candidates of S are equally severe
PairwiseStrict(S) ==
    \A a, b \in S :
      a # b => Abs(InsertItem(a)[3][1][2] * InsertItem(b)[3][1][3]) #
               Abs(InsertItem(b)[3][1][2] * InsertItem(a)[3][1][3])

\* C14 as stated: whatever the candidates inserted for a key, equally severe
\* ones and ones with zero or negative values included, every order of
\* insertion leaves the record that is stored for the key.
C14_Original ==
    \A k \in DOMAIN seen : OrderIndependent(k)

\* C14: if no two candidates inserted for a key are equally severe, that is
\* |curA * bestB| # |curB * bestA| for every two of them, every order of
\* insertion leaves the record that is stored for the key; zero and negative
\* values are included.
C14_OrderIndependentMerge ==
    \A k \in DOMAIN seen : PairwiseStrict(KeyCalls(k)) => OrderIndependent(k)

\* two candidates of different graphs and different severity for one key, the
\* later one with a negative best value, of which the later one is stored
C14_Witness ==
    \E i, k \in 1..Len(inserted) :
      /\ i < k /\ HasResult(i) /\ HasResult(k)
      /\ InsertKey(i) = InsertKey(k)
      /\ inserted[i][2] # inserted[k][2]
      /\ PairwiseStrict(KeyCalls(InsertKey(k)))
      /\ InsertItem(k)[3][1][3] < 0
      /\ regressions[seen[InsertKey(k)]][2] =
           graphs[inserted[k][2]].path \o <<".json">>

\* currentValue and bestValue of the candidate of call i
CurOf(i) == InsertItem(i)[3][1][2]
BestOf(i) == InsertItem(i)[3][1][3]

\* C15: when every candidate inserted for a key has a positive currentValue
\* and a positive bestValue, the record stored for the key carries the values
\* of one of them, and its ratio currentValue / bestValue is at least the
\* ratio of every candidate inserted for the key.
C15_WorstRegression ==
    \A k \in DOMAIN seen :
      (\A i \in KeyCalls(k) : CurOf(i) > 0 /\ BestOf(i) > 0) =>
        LET stored == regressions[seen[k]][5]
        IN  /\ \E i \in KeyCalls(k) :
                 /\ stored[2] = CurOf(i) /\ stored[3] = BestOf(i)
                 /\ regressions[seen[k]][2] =
                      graphs[inserted[i][2]].path \o <<".json">>
            /\ \A i \in KeyCalls(k) :
                 stored[2] * BestOf(i) >= CurOf(i) * stored[3]

\* a key for which the candidate (6, 1) came first and the candidate (4, 2)
\* of another graph second: (6, 1) is stored
C15_Witness ==
    \E i, k \in 1..Len(inserted) :
      /\ i < k /\ HasResult(i) /\ HasResult(k)
      /\ InsertKey(i) = InsertKey(k)
      /\ inserted[i][2] # inserted[k][2]
      /\ CurOf(i) = 6 /\ BestOf(i) = 1 /\ CurOf(k) = 4 /\ BestOf(k) = 2
      /\ regressions[seen[InsertKey(k)]][5][2] = 6
      /\ regressions[seen[InsertKey(k)]][2] =
           graphs[inserted[i][2]].path \o <<".json">>

\* every submitted task is finished and was passed once to
\* _insert_regression, and no handle is pending
AllCollected ==
    /\ results = <<>>
    /\ Len(inserted) = Len(tasks)
    /\ \A t \in 1..Len(tasks) :
         /\ tasks[t].done
         /\ Cardinality({i \in 1..Len(inserted) : inserted[i][1] = t}) = 1

\* C16: with workers that finish the tasks they run, publish ends, normally
\* or with a failure; and whenever _save is about to be called or was called,
\* every submitted task has been collected once and inserted, and none is
\* outstanding.
C16_Terminates ==
    /\ <>(pc \in {"done", "failed"})
    /\ [](pc \in {"save", "done"} => AllCollected)

\* a successful run of four tasks, finished out of order by the workers
C16_Witness ==
    /\ pc = "done"
    /\ saved # None
    /\ Len(tasks) >= 4
    /\ reordered
    /\ AllCollected

\* the rules whose regex matches the entry of graph g
MatchingRules(g, entry_name) ==
    {i \in 1..Len(conf.regressions_first_commits) :
       ReMatch(conf.regressions_first_commits[i].regex,
               entry_name \o BranchSuffix(graphs[g]))}

\* the branch whose tip ends the range of a rule applied to graph g
RuleBranch(g) ==
    IF conf.branches = <<None>> THEN None ELSE Get(graphs[g].params, "branch")

\* the known dates of a start commit and of the commits after it up to the
\* tip of branch b
RuleDates(start_commit, b) ==
    LET s == ResolveName(start_commit)
        cs == {s} \cup (Range(Ancestors(BranchTip(b))) \ Range(Ancestors(s)))
        short == {SubSeq(FullHash(c), 1, conf.hash_length) : c \in cs}
    IN  {hash_to_date[h] : h \in {x \in short : x \in DOMAIN hash_to_date}}

\* the known dates that every matching rule allows
IntersectedDates(g, entry_name) ==
    {d \in Range(hash_to_date) :
       \A i \in MatchingRules(g, entry_name) :
         d \in RuleDates(conf.regressions_first_commits[i].start_commit[1],
                         RuleBranch(g))}

\* the repo cannot resolve the range of a matching rule
SomeRangeFails(g, entry_name) ==
    \E i \in MatchingRules(g, entry_name) :
      \/ ResolveName(conf.regressions_first_commits[i].start_commit[1]) \in shallow
      \/ BranchTip(RuleBranch(g)) \in shallow

\* the rules of conf in any other order
RuleOrders ==
    LET rs == conf.regressions_first_commits
    IN  {[i \in 1..Len(rs) |-> rs[o[i]]] : o \in Orders(1..Len(rs))}

\* C17: a call of _get_allowed_times for an entry that no rule with a null
\* start commit matches returns the known dates that lie, for every matching
\* rule, among the known dates of the rule's start commit and of the commits
\* from it to the branch tip (commits without a known date count for
\* nothing); it raises only if the repo cannot resolve such a range; and with
\* the rules in any other order it returns the same set.
C17_AllowedTimes ==
    \A n \in 1..Len(tasks) :
      LET t == tasks[n]
          g == t.origin
          entry_name == t.data[2]
      IN  ~NullRuleMatches(g, entry_name) =>
            /\ (t.outcome.exc # None) = SomeRangeFails(g, entry_name)
            /\ t.outcome.exc = None =>
                 t.outcome.value = IntersectedDates(g, entry_name)
            /\ \A rs \in RuleOrders :
                 LET r == get_allowed_times(
                            [conf EXCEPT !.regressions_first_commits = rs],
                            shallow, graphs[g], entry_name, t.cache)
                 IN  /\ (r.exc = None) = (t.outcome.exc = None)
                     /\ r.exc = None => r.time_set = t.outcome.value

\* a call for time_foo on master that two rules match, from c1 and from c3:
\* the first alone allows all four dates of master, the call returns the two
\* dates from c3 on, and the tip c5, which has no date, adds nothing
C17_Witness ==
    \E n \in 1..Len(tasks) :
      /\ tasks[n].origin = 1
      /\ Len(conf.regressions_first_commits) = 2
      /\ conf.regressions_first_commits[1].start_commit = Some(<<"c1">>)
      /\ conf.regressions_first_commits[2].start_commit = Some(<<"c3">>)
      /\ MatchingRules(1, tasks[n].data[2]) = {1, 2}
      /\ conf.branches # <<None>>
      /\ tasks[n].outcome.exc = None
      /\ tasks[n].outcome.value = {30, 40}

RECURSIVE Concat(_)
Concat(ss) == IF ss = <<>> THEN <<>> ELSE Head(ss) \o Concat(Tail(ss))

\* the keys the repo was asked for, over all calls so far, in order
RepoCalls == Concat([n \in 1..Len(tasks) |-> tasks[n].resolved])

\* C18: every call of _get_allowed_times on a filter that has served other
\* calls before returns, or raises, what the same call does on a filter with
\* an empty cache, and over all calls the repo is asked at most once for the
\* range of a (start commit, branch or None) key.
C18_CacheTransparent ==
    /\ \A n \in 1..Len(tasks) :
         LET t == tasks[n]
             fresh == get_allowed_times(conf, shallow, graphs[t.origin],
                                        t.data[2], <<>>)
         IN  /\ fresh.exc = t.outcome.exc
             /\ fresh.exc = None => fresh.time_set = t.outcome.value
    /\ \A a, b \in 1..Len(RepoCalls) : a # b => RepoCalls[a] # RepoCalls[b]

\* a second call, for another graph of the same branch setting, matched a
\* rule whose key the first call had resolved: it asked the repo for nothing
\* and returned a set that is not every known date
C18_Witness ==
    /\ Len(tasks) = 2
    /\ tasks[1].resolved # <<>>
    /\ tasks[2].resolved = <<>>
    /\ tasks[1].origin # tasks[2].origin
    /\ \E i \in MatchingRules(tasks[2].origin, tasks[2].data[2]) :
         TimeSetKey(conf, graphs[tasks[2].origin],
                    conf.regressions_first_commits[i].start_commit[1])
           \in Range(tasks[1].resolved)
    /\ tasks[2].outcome.exc = None
    /\ tasks[2].outcome.value # Range(hash_to_date)
    /\ tasks[2].outcome.value # {}

\* the number of series submitted so far for the graph the for loop is at
SeriesOfCurrentGraph == Cardinality({t \in 1..Len(tasks) : tasks[t].origin = gi})

\* C19: whenever the coordinator is at the head of the for loop, at most
\* n_processes tasks are outstanding; at every moment the outstanding tasks
\* are at most n_processes plus the series submitted for the graph being
\* processed; and a step that skips a graph leaves the outstanding tasks as
\* they are.
C19_OutstandingBound ==
    /\ [](/\ pc = "for" => Len(results) <= n_processes
          /\ Len(results) <= n_processes + SeriesOfCurrentGraph)
    /\ [][(pc = "for" /\ pc' = "for" /\ gi' = gi + 1) =>
            (results' = results /\ tasks' = tasks)]_vars

\* a graph was skipped while as many tasks as the pool has processes were
\* outstanding
C19_Witness ==
    /\ pc = "for"
    /\ gi >= 3
    /\ Skipped(graphs[gi - 1])
    /\ Len(results) = n_processes
    /\ Len(tasks) >= 2

\* the first call of _insert_regression that carried a result for key k
FirstCall(k) == SetMin(KeyCalls(k))

\* regressions and seen agree, and the records stand in the order in which
\* their keys first came
SeenConsistent ==
    /\ Len(regressions) = Cardinality(DOMAIN seen)
    /\ \A k \in DOMAIN seen :
         /\ seen[k] \in 1..Len(regressions)
         /\ RecordKey(regressions[seen[k]]) = k
         /\ KeyCalls(k) # {}
    /\ \A a, b \in 1..Len(regressions) :
         a < b => FirstCall(RecordKey(regressions[a])) <
                  FirstCall(RecordKey(regressions[b]))

\* C20: after any calls of _insert_regression, regressions has as many
\* records as seen has keys, seen[k] is a record of regressions with the key
\* k, and the records stand in the order in which their keys were first
\* recorded; a call without a result changes neither regressions nor seen,
\* and no call moves or removes a record's key from its position.
C20_SeenConsistent ==
    /\ []SeenConsistent
    /\ [][Len(inserted') > Len(inserted) =>
            /\ tasks'[inserted'[Len(inserted')][1]].outcome.value[3] = None =>
                 (regressions' = regressions /\ seen' = seen)
            /\ Len(regressions') >= Len(regressions)
            /\ \A a \in 1..Len(regressions) :
                 RecordKey(regressions'[a]) = RecordKey(regressions[a])
            /\ \A k \in DOMAIN seen : k \in DOMAIN seen' /\ seen'[k] = seen[k]]_vars

\* two keys are stored, the first of them after its record was replaced in
\* place by a later, worse candidate of another graph
C20_Witness ==
    /\ Len(regressions) = 2
    /\ \E i, k \in KeyCalls(RecordKey(regressions[1])) :
         /\ i < k
         /\ k > FirstCall(RecordKey(regressions[2]))
         /\ inserted[i][2] # inserted[k][2]
         /\ regressions[1][2] = graphs[inserted[k][2]].path \o <<".json">>

=============================================================================
